---- MODULE Spec2Model ----
(***************************************************************************)
(* Rental rule engine of rental_crm: rental creation (RentalFactory),      *)
(* the status sweep and completion (RentalService), the fine calculator    *)
(* and the pricing strategies, together with the views that call them.     *)
(*                                                                         *)
(* Dates are day ordinals.  Money held by Python Decimal objects is an     *)
(* integer number of 1/10000 cent (exact, as Decimal arithmetic is);       *)
(* money stored in a DecimalField(max_digits=10, decimal_places=2) column  *)
(* is an integer number of cents, obtained by Quantize.                    *)
(***************************************************************************)
EXTENDS Integers, Sequences, FiniteSets, TLC

\* ------------------------------------------------------------------ bounds
NumCars == 2
MaxRentals == 2
MaxRequests == 3
MaxDay == 3
MaxLateDays == 1
EpochYear == 2026

Procs == {"w1", "w2"}
Cars == 1..NumCars
NoDate == -1

\* catalogue the fleet is drawn from: daily_price in cents, year of manufacture
PriceOfCar(c) == IF c = 1 THEN 1000 ELSE 35
YearOfCar(c) == IF c = 1 THEN EpochYear ELSE EpochYear - 4

\* dates a rental request can carry on day t: a start in the past, today or
\* in the future, an end on the start date or after it
StartDates(t) == {t - 1, t, t + 1}
EndDates(s) == {s, s + 1}

\* values a completion request can carry: CompleteRentalForm admits damage
\* levels 0..3, late days >= 0 and return dates from today on; the API action
\* passes on whatever the request holds
FormDamageLevels == {0, 2}
FormLateDays == 0..MaxLateDays
FormEndDates(t) == {t}
ApiDamageLevels == {0, 5}
ApiLateDays == 0..MaxLateDays
ApiEndDates(t) == {t - 1}

\* ------------------------------------------------------- decimal arithmetic
Scale == 10000

\* value.quantize(Decimal('0.01')) under the default context (ROUND_HALF_EVEN):
\* n is in 1/10000 cent, the result is in cents
Quantize(n) ==
    LET q == n \div Scale
        r == n % Scale
    IN  IF 2 * r < Scale THEN q
        ELSE IF 2 * r > Scale THEN q + 1
        ELSE IF q % 2 = 0 THEN q ELSE q + 1

FromCents(c) == c * Scale

Max(a, b) == IF a >= b THEN a ELSE b

\* date.today().year
YearOf(d) == EpochYear + (d \div 365)

\* ------------------------------------------------------------------ pricing
\* multiplier times 10
calculate_year_multiplier(age) ==
    IF age <= 2 THEN 12
    ELSE IF age <= 5 THEN 10
    ELSE IF age <= 10 THEN 9
    ELSE 8

\* variant: the brackets start one day later
calculate_duration_discount_late(days) ==
    IF days > 30 THEN 15
    ELSE IF days > 14 THEN 10
    ELSE IF days > 7 THEN 5
    ELSE 0

\* discount times 100
calculate_duration_discount(days) ==
    IF days >= 30 THEN 15
    ELSE IF days >= 14 THEN 10
    ELSE IF days >= 7 THEN 5
    ELSE 0

\* CombinedPricingStrategy.calculate_price, in 1/10000 cent
calculate_price(car, start_date, end_date, t) ==
    LET days == (end_date - start_date) + 1
        age == YearOf(t) - car.year
        year_multiplier == calculate_year_multiplier(age)
        duration_discount == calculate_duration_discount(days)
    IN  car.daily_price * days * year_multiplier * (100 - duration_discount) * 10

\* ------------------------------------------------------------------- fines
LATE_FINE_PER_DAY == 50000

\* variant: the multiplier taken as level/10
DAMAGE_MULTIPLIERS_linear(level) == level

\* multiplier times 10
DAMAGE_MULTIPLIERS(level) ==
    CASE level = 0 -> 0
      [] level = 1 -> 1
      [] level = 2 -> 3
      [] level = 3 -> 5

\* variant: a level out of range is clamped into 0..3 instead of set to 0
calculate_damage_fine_clamped(rental, damage_level) ==
    LET level == IF damage_level < 0 THEN 0
                 ELSE IF damage_level > 3 THEN 3 ELSE damage_level
    IN  rental.deposit * DAMAGE_MULTIPLIERS(level) * (Scale \div 10)

calculate_damage_fine(rental, damage_level) ==
    LET level == IF damage_level \notin 0..3 THEN 0 ELSE damage_level
    IN  rental.deposit * DAMAGE_MULTIPLIERS(level) * (Scale \div 10)

calculate_late_fine(rental, late_days) ==
    IF late_days <= 0 THEN 0
    ELSE FromCents(LATE_FINE_PER_DAY) * late_days

calculate_total_fines(rental, damage_level, late_days) ==
    calculate_damage_fine(rental, damage_level)
        + calculate_late_fine(rental, late_days)

\* variant: the difference returned as it is
calculate_refund_unclamped(rental, total_fines) ==
    FromCents(rental.deposit) - total_fines

calculate_refund(rental, total_fines) ==
    Max(FromCents(rental.deposit) - total_fines, 0)

\* ------------------------------------------------------------------- state
VARIABLES
    today,      \* date.today()
    cars,       \* Car rows: [status, daily_price, year]
    rentals,    \* Rental rows, id = index
    fines,      \* Fine rows
    payments,   \* Payment rows
    pc,         \* position of each request worker
    cr,         \* rental-creation request: the Car object the view loaded
    co,         \* completion request: the Rental object the view loaded
    sw,         \* sweep in progress: today, pending_count, overdue_count
    result,     \* what the last finished request returned
    served      \* number of requests taken up so far

vars == <<today, cars, rentals, fines, payments, pc, cr, co, sw, result, served>>
dbvars == <<cars, rentals, fines, payments>>

LiveStatuses == {"pending", "active", "overdue"}

NoCar == [status |-> "none", daily_price |-> 0, year |-> 0]
NoRental == [car |-> 0, start_date |-> NoDate, expected_end_date |-> NoDate,
             actual_end_date |-> NoDate, deposit |-> 0, daily_cost |-> 0,
             total_cost |-> 0, status |-> "none", damage_level |-> 0,
             late_days |-> 0]
NoCr == [car |-> 0, obj |-> NoCar]
NoCo == [rental |-> 0, obj |-> NoRental, via |-> "none"]
NoSw == [today |-> NoDate, pending_count |-> 0, overdue_count |-> 0]
NoResult == [op |-> "none", args |-> << >>, ok |-> FALSE, count |-> 0,
             total_fines |-> 0, refund |-> 0]

DB == [cars |-> cars, rentals |-> rentals, fines |-> fines,
       payments |-> payments]

Init ==
    /\ today = 0
    /\ cars = [c \in Cars |-> [status |-> "available",
                               daily_price |-> PriceOfCar(c),
                               year |-> YearOfCar(c)]]
    /\ rentals = << >>
    /\ fines = << >>
    /\ payments = << >>
    /\ pc = [p \in Procs |-> "idle"]
    /\ cr = [p \in Procs |-> NoCr]
    /\ co = [p \in Procs |-> NoCo]
    /\ sw = [p \in Procs |-> NoSw]
    /\ result = NoResult
    /\ served = 0

\* a worker takes up a request
Accept == served < MaxRequests /\ served' = served + 1

\* ------------------------------------------------------- RentalFactory
is_available(car) == car.status = "available"

\* RentalFactory.calculate_deposit: 30% of the Combined price of the window
\* [today, today + rental_days]
calculate_deposit(car, rental_days, t) ==
    LET estimated_end == t + rental_days
        rental_cost == calculate_price(car, t, estimated_end, t)
    IN  (rental_cost * 3) \div 10

CreateFailPoints == {"none", "payment", "car"}

\* variant: the comparison strict, a rental starting today stays 'pending'
rental_status_strict(start_date, t) ==
    IF start_date < t THEN "active" ELSE "pending"

\* rental_status = 'active' if start_date <= date.today() else 'pending'
rental_status(start_date, t) == IF start_date <= t THEN "active" ELSE "pending"

\* variant: an end date equal to the start date passes
validation_error_lenient(car, start_date, end_date, t) ==
    \/ ~is_available(car)
    \/ start_date < t
    \/ end_date < start_date

\* the three validation checks: TRUE when create_rental raises ValueError
validation_error(car, start_date, end_date, t) ==
    \/ ~is_available(car)
    \/ start_date < t
    \/ end_date <= start_date

\* The statements of RentalFactory.create_rental in order, on the Car object
\* the caller passed.  fail names the write that raises (none: no write
\* raises).  Returns the rows as written so far and whether it returned.
create_rental_body(db, c, car, start_date, end_date, t, fail) ==
    IF validation_error(car, start_date, end_date, t)
    THEN [db |-> db, ok |-> FALSE]
    ELSE
      LET total_cost == calculate_price(car, start_date, end_date, t)
          daily_cost == car.daily_price
          days == (end_date - start_date) + 1
          deposit == calculate_deposit(car, days, t)
          rental == [car |-> c, start_date |-> start_date,
                     expected_end_date |-> end_date,
                     actual_end_date |-> NoDate,
                     deposit |-> Quantize(deposit),
                     daily_cost |-> daily_cost,
                     total_cost |-> Quantize(total_cost),
                     status |-> rental_status(start_date, t),
                     damage_level |-> 0, late_days |-> 0]
          db1 == [db EXCEPT !.rentals = Append(@, rental)]
          db2 == [db1 EXCEPT !.payments =
                     Append(@, [rental |-> Len(db1.rentals),
                                payment_type |-> "deposit",
                                amount |-> Quantize(deposit)])]
          db3 == [db2 EXCEPT !.cars[c] = [car EXCEPT !.status = "rented"]]
      IN  CASE fail = "payment" -> [db |-> db1, ok |-> FALSE]
            [] fail = "car" -> [db |-> db2, ok |-> FALSE]
            [] OTHER -> [db |-> db3, ok |-> TRUE]

\* @transaction.atomic: the writes of a call that raised are rolled back
transaction_atomic(before, outcome) ==
    IF outcome.ok THEN outcome ELSE [outcome EXCEPT !.db = before]

\* variant: no transaction, the rows written before a raise stay
create_rental_not_atomic(db, c, car, start_date, end_date, t, fail) ==
    create_rental_body(db, c, car, start_date, end_date, t, fail)

create_rental(db, c, car, start_date, end_date, t, fail) ==
    transaction_atomic(db,
        create_rental_body(db, c, car, start_date, end_date, t, fail))

\* car_detail / RentalViewSet.create: the view loads the Car row
LoadCar(p) ==
    /\ pc[p] = "idle"
    /\ Len(rentals) < MaxRentals
    /\ \E c \in Cars :
         /\ cars[c] # NoCar
         /\ cr' = [cr EXCEPT ![p] = [car |-> c, obj |-> cars[c]]]
    /\ pc' = [pc EXCEPT ![p] = "create"]
    /\ result' = NoResult
    /\ UNCHANGED <<today, dbvars, co, sw>>
    /\ Accept

\* ... and calls RentalService.create_rental with the dates of the request
CreateRental(p) ==
    /\ pc[p] = "create"
    /\ \E s \in StartDates(today), fail \in CreateFailPoints :
       \E e \in EndDates(s) :
         LET out == create_rental(DB, cr[p].car, cr[p].obj, s, e, today, fail)
         IN  /\ cars' = out.db.cars
             /\ rentals' = out.db.rentals
             /\ fines' = out.db.fines
             /\ payments' = out.db.payments
             /\ result' =
                    [NoResult EXCEPT !.op = "create_rental", !.args = <<s, e>>,
                                     !.ok = out.ok]
    /\ pc' = [pc EXCEPT ![p] = "idle"]
    /\ cr' = [cr EXCEPT ![p] = NoCr]
    /\ UNCHANGED <<today, co, sw, served>>

\* ------------------------------------------ RentalService.update_overdue_rentals
\* variant: the status filter left out
pending_to_active_any_status(r, t) == r.start_date <= t

\* Rental.objects.filter(status='pending', start_date__lte=today)
pending_to_active(r, t) == r.status = "pending" /\ r.start_date <= t

\* variant: expected_end_date__lte, a rental due today counts as overdue
overdue_rentals_lte(r, t) == r.status = "active" /\ r.expected_end_date <= t

\* Rental.objects.filter(status='active', expected_end_date__lt=today)
overdue_rentals(r, t) == r.status = "active" /\ r.expected_end_date < t

\* the rows the two querysets select when they are evaluated
pending_to_active_rows(rs, t) == {i \in DOMAIN rs : pending_to_active(rs[i], t)}
overdue_rentals_rows(rs, t) == {i \in DOMAIN rs : overdue_rentals(rs[i], t)}

\* QuerySet.count() and QuerySet.update(status=...)
QCount(rows) == Cardinality(rows)
QUpdate_unfiltered(rs, rows, st) ==
    [i \in DOMAIN rs |-> [rs[i] EXCEPT !.status = st]]

QUpdate(rs, rows, st) ==
    [i \in DOMAIN rs |-> IF i \in rows THEN [rs[i] EXCEPT !.status = st]
                         ELSE rs[i]]

\* RentalService.update_overdue_rentals run with nothing in between its four
\* queries: the rows it leaves and the number it returns
update_overdue_rentals(rs, t) ==
    LET pending_count == QCount(pending_to_active_rows(rs, t))
        rs1 == QUpdate(rs, pending_to_active_rows(rs, t), "active")
        overdue_count == QCount(overdue_rentals_rows(rs1, t))
        rs2 == QUpdate(rs1, overdue_rentals_rows(rs1, t), "overdue")
    IN  [rentals |-> rs2, count |-> pending_count + overdue_count]

\* today = date.today(); pending_count = pending_to_active.count()
SweepCountPending(p) ==
    /\ pc[p] = "idle"
    /\ sw' = [sw EXCEPT ![p] = [today |-> today,
                 pending_count |-> QCount(pending_to_active_rows(rentals, today)),
                 overdue_count |-> 0]]
    /\ pc' = [pc EXCEPT ![p] = "sweep_update_pending"]
    /\ result' = NoResult
    /\ UNCHANGED <<today, dbvars, cr, co>>
    /\ Accept

\* pending_to_active.update(status='active')
SweepUpdatePending(p) ==
    /\ pc[p] = "sweep_update_pending"
    /\ rentals' = QUpdate(rentals, pending_to_active_rows(rentals, sw[p].today), "active")
    /\ pc' = [pc EXCEPT ![p] = "sweep_count_overdue"]
    /\ UNCHANGED <<today, cars, fines, payments, cr, co, sw, result, served>>

\* overdue_count = overdue_rentals.count()
SweepCountOverdue(p) ==
    /\ pc[p] = "sweep_count_overdue"
    /\ sw' = [sw EXCEPT ![p].overdue_count =
                 QCount(overdue_rentals_rows(rentals, sw[p].today))]
    /\ pc' = [pc EXCEPT ![p] = "sweep_update_overdue"]
    /\ UNCHANGED <<today, dbvars, cr, co, result, served>>

\* overdue_rentals.update(status='overdue'); return pending_count + overdue_count
SweepUpdateOverdue(p) ==
    /\ pc[p] = "sweep_update_overdue"
    /\ rentals' = QUpdate(rentals, overdue_rentals_rows(rentals, sw[p].today), "overdue")
    /\ result' =
           [NoResult EXCEPT !.op = "update_overdue_rentals", !.ok = TRUE,
                            !.count = sw[p].pending_count + sw[p].overdue_count]
    /\ pc' = [pc EXCEPT ![p] = "idle"]
    /\ sw' = [sw EXCEPT ![p] = NoSw]
    /\ UNCHANGED <<today, cars, fines, payments, cr, co, served>>

\* ------------------------------------------------ RentalService.complete_rental
CompleteFailPoints == {"none", "fine", "refund", "car"}

\* variant: the late row written for late_days >= 0
create_fine_records_from_zero(fs, rid, rental, damage_level, late_days) ==
    LET fs1 == IF damage_level > 0
               THEN Append(fs, [rental |-> rid, reason |-> "damage",
                        amount |-> Quantize(
                            calculate_damage_fine(rental, damage_level))])
               ELSE fs
    IN  IF late_days >= 0
        THEN Append(fs1, [rental |-> rid, reason |-> "late",
                 amount |-> Quantize(calculate_late_fine(rental, late_days))])
        ELSE fs1

\* RentalService._create_fine_records
create_fine_records(fs, rid, rental, damage_level, late_days) ==
    LET fs1 == IF damage_level > 0
               THEN Append(fs, [rental |-> rid, reason |-> "damage",
                        amount |-> Quantize(
                            calculate_damage_fine(rental, damage_level))])
               ELSE fs
    IN  IF late_days > 0
        THEN Append(fs1, [rental |-> rid, reason |-> "late",
                 amount |-> Quantize(calculate_late_fine(rental, late_days))])
        ELSE fs1

\* variant: the vehicle is saved without the status change
car_kept_rented(car) == car

\* rental.car.status = 'available'
car_released(car) == [car EXCEPT !.status = "available"]

\* variant: the refund payment written whatever the refund is
create_refund_payment_always(ps, rid, refund) ==
    Append(ps, [rental |-> rid, payment_type |-> "refund",
                amount |-> Quantize(refund)])

\* if refund > 0: Payment.objects.create(payment_type='refund', amount=refund)
create_refund_payment(ps, rid, refund) ==
    IF refund > 0
    THEN Append(ps, [rental |-> rid, payment_type |-> "refund",
                     amount |-> Quantize(refund)])
    ELSE ps

\* variant: the price of the window quoted at creation
completion_price_quoted(car, rental, actual_end_date, t) ==
    calculate_price(car, rental.start_date, rental.expected_end_date, t)

\* strategy.calculate_price(rental.car, rental.start_date, actual_end_date)
completion_price(car, rental, actual_end_date, t) ==
    calculate_price(car, rental.start_date, actual_end_date, t)

\* The statements of RentalService.complete_rental in order, on the Rental
\* object the caller passed; rental.car is fetched on its first use.
complete_rental_body(db, rid, rental, actual_end_date, damage_level, late_days, t, fail) ==
    LET total_fines == calculate_total_fines(rental, damage_level, late_days)
        refund == calculate_refund(rental, total_fines)
        car == db.cars[rental.car]
        total_cost == completion_price(car, rental, actual_end_date, t)
                          + total_fines
        saved == [rental EXCEPT !.actual_end_date = actual_end_date,
                                !.damage_level = damage_level,
                                !.late_days = late_days,
                                !.status = "completed",
                                !.total_cost = Quantize(total_cost)]
        db1 == [db EXCEPT !.rentals[rid] = saved]
        db2 == [db1 EXCEPT !.fines =
                   create_fine_records(@, rid, rental, damage_level, late_days)]
        db3 == [db2 EXCEPT !.payments = create_refund_payment(@, rid, refund)]
        db4 == [db3 EXCEPT !.cars[rental.car] =
                   car_released(car)]
        raised(d) == [db |-> d, ok |-> FALSE, total_fines |-> 0, refund |-> 0]
    IN  CASE fail = "fine" /\ (damage_level > 0 \/ late_days > 0) -> raised(db1)
          [] fail = "refund" /\ refund > 0 -> raised(db2)
          [] fail = "car" -> raised(db3)
          [] OTHER -> [db |-> db4, ok |-> TRUE, total_fines |-> total_fines,
                       refund |-> refund]

\* variant: no transaction, the rows written before a raise stay
complete_rental_not_atomic(db, rid, rental, actual_end_date, damage_level, late_days, t, fail) ==
    complete_rental_body(db, rid, rental, actual_end_date, damage_level,
                         late_days, t, fail)

complete_rental(db, rid, rental, actual_end_date, damage_level, late_days, t, fail) ==
    transaction_atomic(db,
        complete_rental_body(db, rid, rental, actual_end_date, damage_level,
                             late_days, t, fail))

\* the effect of a completion request on the store and on the worker
Complete(p, aed, dl, ld, fail) ==
    LET out == complete_rental(DB, co[p].rental, co[p].obj, aed, dl, ld,
                               today, fail)
    IN  /\ cars' = out.db.cars
        /\ rentals' = out.db.rentals
        /\ fines' = out.db.fines
        /\ payments' = out.db.payments
        /\ result' =
               [NoResult EXCEPT !.op = "complete_rental",
                                !.args = <<aed, dl, ld>>, !.ok = out.ok,
                                !.total_fines = out.total_fines,
                                !.refund = out.refund]
        /\ pc' = [pc EXCEPT ![p] = "idle"]
        /\ co' = [co EXCEPT ![p] = NoCo]
        /\ UNCHANGED <<today, cr, sw, served>>

\* admin_rental_complete: get_object_or_404 and the 'already completed' check
AdminLoadRental(p) ==
    /\ pc[p] = "idle"
    /\ \E rid \in DOMAIN rentals :
         /\ rentals[rid].status # "completed"
         /\ co' = [co EXCEPT ![p] = [rental |-> rid, obj |-> rentals[rid],
                                     via |-> "admin"]]
    /\ pc' = [pc EXCEPT ![p] = "admin_complete"]
    /\ result' = NoResult
    /\ UNCHANGED <<today, dbvars, cr, sw>>
    /\ Accept

\* admin_rental_complete: a valid CompleteRentalForm, then complete_rental
AdminCompleteRental(p) ==
    /\ pc[p] = "admin_complete"
    /\ \E aed \in FormEndDates(today), dl \in FormDamageLevels,
          ld \in FormLateDays, fail \in CompleteFailPoints :
         /\ aed >= today
         /\ dl \in 0..3
         /\ ld >= 0
         /\ Complete(p, aed, dl, ld, fail)

\* RentalViewSet.complete: get_object()
ApiLoadRental(p) ==
    /\ pc[p] = "idle"
    /\ \E rid \in DOMAIN rentals :
         co' = [co EXCEPT ![p] = [rental |-> rid, obj |-> rentals[rid],
                                  via |-> "api"]]
    /\ pc' = [pc EXCEPT ![p] = "api_complete"]
    /\ result' = NoResult
    /\ UNCHANGED <<today, dbvars, cr, sw>>
    /\ Accept

\* RentalViewSet.complete: the request's values go to complete_rental as sent
ApiCompleteRental(p) ==
    /\ pc[p] = "api_complete"
    /\ \E aed \in ApiEndDates(today), dl \in ApiDamageLevels,
          ld \in ApiLateDays, fail \in CompleteFailPoints :
         Complete(p, aed, dl, ld, fail)

\* ------------------------------------------------------------ environment
\* RentalAdmin (Django admin site): an operator sets a rental to 'cancelled'
AdminCancelRental ==
    /\ \E rid \in DOMAIN rentals :
         /\ rentals[rid].status \in LiveStatuses
         /\ rentals' = [rentals EXCEPT ![rid].status = "cancelled"]
    /\ UNCHANGED <<today, cars, fines, payments, pc, cr, co, sw, result, served>>

\* midnight passes
Tick ==
    /\ today < MaxDay
    /\ today' = today + 1
    /\ UNCHANGED <<dbvars, pc, cr, co, sw, result, served>>

\* ---------------------------------------------------------- specifications
\* requests of several workers interleave at their queries
Next ==
    \/ \E p \in Procs :
         \/ LoadCar(p)
         \/ CreateRental(p)
         \/ SweepCountPending(p)
         \/ SweepUpdatePending(p)
         \/ SweepCountOverdue(p)
         \/ SweepUpdateOverdue(p)
         \/ AdminLoadRental(p)
         \/ AdminCompleteRental(p)
         \/ ApiLoadRental(p)
         \/ ApiCompleteRental(p)
    \/ AdminCancelRental
    \/ Tick

Spec == Init /\ [][Next]_vars

\* create_rental, update_overdue_rentals and complete_rental executed one at
\* a time: a request starts only when no other is in progress
AllIdle == \A q \in Procs : pc[q] = "idle"
Alone(p) == \A q \in Procs \ {p} : pc[q] = "idle"

SeqNext ==
    \/ \E p \in Procs :
         /\ Alone(p)
         /\ \/ LoadCar(p)
            \/ CreateRental(p)
            \/ SweepCountPending(p)
            \/ SweepUpdatePending(p)
            \/ SweepCountOverdue(p)
            \/ SweepUpdateOverdue(p)
            \/ AdminLoadRental(p)
            \/ AdminCompleteRental(p)
    \/ AllIdle /\ Tick

SeqSpec == Init /\ [][SeqNext]_vars
\* ------------------------------------------------- the fine calculator alone
\* deposits (in cents) of the rental the calculator is given, and the
\* arguments it is called with
FineDeposits == {1, 32, 35, 45, 1080, 60000}
FineDamageLevels == -1..5
FineLateDays == -1..(MaxLateDays + 1)
FineTotals(rental) ==
    {0, FromCents(rental.deposit) - 1, FromCents(rental.deposit),
     FromCents(rental.deposit) + 1, FromCents(LATE_FINE_PER_DAY)}

\* one active rental of vehicle 1, started the day before, with its deposit
\* payment
FineInit ==
    /\ today = 1
    /\ cars = [c \in Cars |->
                 [status |-> IF c = 1 THEN "rented" ELSE "available",
                  daily_price |-> PriceOfCar(c), year |-> YearOfCar(c)]]
    /\ \E d \in FineDeposits :
         /\ rentals = <<[NoRental EXCEPT
                           !.car = 1, !.start_date = 0,
                           !.expected_end_date = 1, !.deposit = d,
                           !.daily_cost = PriceOfCar(1),
                           !.total_cost =
                               Quantize(calculate_price(cars[1], 0, 1, 0)),
                           !.status = "active"]>>
         /\ payments = <<[rental |-> 1, payment_type |-> "deposit",
                          amount |-> d]>>
    /\ fines = << >>
    /\ pc = [p \in Procs |-> "idle"]
    /\ cr = [p \in Procs |-> NoCr]
    /\ co = [p \in Procs |-> NoCo]
    /\ sw = [p \in Procs |-> NoSw]
    /\ result = NoResult
    /\ served = 0

\* a call of one function of the calculator on the rental as drawn, before
\* any request is taken up: its arguments and what it returns
Returned(op, args, value) == [op |-> op, args |-> args, value |-> value]

CalculateDamageFine ==
    /\ served = 0
    /\ \E i \in DOMAIN rentals, dl \in FineDamageLevels :
         result' = Returned("calculate_damage_fine", <<i, dl>>,
                            calculate_damage_fine(rentals[i], dl))
    /\ UNCHANGED <<today, dbvars, pc, cr, co, sw, served>>

CalculateLateFine ==
    /\ served = 0
    /\ \E i \in DOMAIN rentals, ld \in FineLateDays :
         result' = Returned("calculate_late_fine", <<i, ld>>,
                            calculate_late_fine(rentals[i], ld))
    /\ UNCHANGED <<today, dbvars, pc, cr, co, sw, served>>

CalculateTotalFines ==
    /\ served = 0
    /\ \E i \in DOMAIN rentals, dl \in FineDamageLevels, ld \in FineLateDays :
         result' = Returned("calculate_total_fines", <<i, dl, ld>>,
                            calculate_total_fines(rentals[i], dl, ld))
    /\ UNCHANGED <<today, dbvars, pc, cr, co, sw, served>>

CalculateRefund ==
    /\ served = 0
    /\ \E i \in DOMAIN rentals :
       \E total_fines \in FineTotals(rentals[i]) :
         /\ total_fines >= 0
         /\ result' = Returned("calculate_refund", <<i, total_fines>>,
                               calculate_refund(rentals[i], total_fines))
    /\ UNCHANGED <<today, dbvars, pc, cr, co, sw, served>>

\* the calculator called directly, and through the completion requests
FineNext ==
    \/ CalculateDamageFine
    \/ CalculateLateFine
    \/ CalculateTotalFines
    \/ CalculateRefund
    \/ \E p \in Procs :
         \/ AdminLoadRental(p)
         \/ AdminCompleteRental(p)
         \/ ApiLoadRental(p)
         \/ ApiCompleteRental(p)

FineSpec == FineInit /\ [][FineNext]_vars

\* ------------------------------------ the factory and the fleet administration
\* RentalFactory.validate_rental_dates
max_rental_days == 365

\* variant: a duration of exactly max_rental_days refused
validate_rental_dates_strict(start_date, end_date, t) ==
    LET rental_days == end_date - start_date
    IN  IF start_date < t
        THEN [ok |-> FALSE, message |-> "start in the past"]
        ELSE IF end_date <= start_date
        THEN [ok |-> FALSE, message |-> "end not after start"]
        ELSE IF rental_days >= max_rental_days
        THEN [ok |-> FALSE, message |-> "maximum duration"]
        ELSE IF rental_days < 1
        THEN [ok |-> FALSE, message |-> "minimum duration"]
        ELSE [ok |-> TRUE, message |-> ""]

validate_rental_dates(start_date, end_date, t) ==
    LET rental_days == end_date - start_date
    IN  IF start_date < t
        THEN [ok |-> FALSE, message |-> "start in the past"]
        ELSE IF end_date <= start_date
        THEN [ok |-> FALSE, message |-> "end not after start"]
        ELSE IF rental_days > max_rental_days
        THEN [ok |-> FALSE, message |-> "maximum duration"]
        ELSE IF rental_days < 1
        THEN [ok |-> FALSE, message |-> "minimum duration"]
        ELSE [ok |-> TRUE, message |-> ""]

\* variant: the rentals do not protect the vehicle
car_delete_unprotected(db, c) ==
    [db |-> [db EXCEPT !.cars[c] = NoCar], ok |-> TRUE]

\* car.delete() with Rental.car on_delete=PROTECT: raises while any rental
\* references the vehicle
car_delete(db, c) ==
    IF \E i \in DOMAIN db.rentals : db.rentals[i].car = c
    THEN [db |-> db, ok |-> FALSE]
    ELSE [db |-> [db EXCEPT !.cars[c] = NoCar], ok |-> TRUE]

\* admin_car_delete: refused while a pending, active or overdue rental
\* references the vehicle; otherwise a POST deletes, a GET shows the form
admin_car_delete(db, c, method) ==
    LET all_rentals == {i \in DOMAIN db.rentals : db.rentals[i].car = c}
        active_rentals ==
            {i \in all_rentals : db.rentals[i].status \in LiveStatuses}
    IN  IF active_rentals # {} THEN [db |-> db, ok |-> FALSE]
        ELSE IF method = "POST" THEN car_delete(db, c)
        ELSE [db |-> db, ok |-> FALSE]

\* the values the administration and the API requests carry
Methods == {"GET", "POST"}
OfficePriceOfCar(c) == IF c = 1 THEN 100 ELSE 35
OfficePrices == {35, 100}
OfficeAges == {0, 2, 3, 5, 6, 10, 11}
OfficeDays == {2, 6, 7, 10, 13, 14, 29, 30}
OfficeStartDates(t) == {t - 1, t, t + 2}
OfficeDurations == {-1, 0, 1, max_rental_days, max_rental_days + 1}
OfficeCreateStartDates(t) == {t - 1, t, t + 2}
OfficeCreateDurations == {0, 1, max_rental_days + 1}

OfficeInit ==
    /\ today = 0
    /\ cars = [c \in Cars |-> [status |-> "available",
                               daily_price |-> OfficePriceOfCar(c),
                               year |-> YearOfCar(c)]]
    /\ rentals = << >>
    /\ fines = << >>
    /\ payments = << >>
    /\ pc = [p \in Procs |-> "idle"]
    /\ cr = [p \in Procs |-> NoCr]
    /\ co = [p \in Procs |-> NoCo]
    /\ sw = [p \in Procs |-> NoSw]
    /\ result = NoResult
    /\ served = 0

\* CombinedPricingStrategy.calculate_price called on a vehicle and a range
CalculatePrice ==
    /\ served = 0
    /\ \E daily_price \in OfficePrices, age \in OfficeAges, days \in OfficeDays :
         LET car == [status |-> "available", daily_price |-> daily_price,
                     year |-> YearOf(today) - age]
         IN  result' = Returned("calculate_price",
                                <<daily_price, age, today, today + (days - 1)>>,
                                calculate_price(car, today,
                                                today + (days - 1), today))
    /\ UNCHANGED <<today, dbvars, pc, cr, co, sw, served>>

\* RentalFactory.validate_rental_dates called on a range
ValidateRentalDates ==
    /\ served = 0
    /\ \E s \in OfficeStartDates(today), n \in OfficeDurations :
         result' = Returned("validate_rental_dates", <<s, s + n, today>>,
                            validate_rental_dates(s, s + n, today))
    /\ UNCHANGED <<today, dbvars, pc, cr, co, sw, served>>

\* RentalViewSet.create: the dates of the request go to create_rental as sent
ApiCreateRental(p) ==
    /\ pc[p] = "create"
    /\ \E s \in OfficeCreateStartDates(today), n \in OfficeCreateDurations :
         LET out == create_rental(DB, cr[p].car, cr[p].obj, s, s + n, today,
                                  "none")
         IN  /\ cars' = out.db.cars
             /\ rentals' = out.db.rentals
             /\ fines' = out.db.fines
             /\ payments' = out.db.payments
             /\ result' =
                    [NoResult EXCEPT !.op = "create_rental",
                                     !.args = <<s, s + n>>, !.ok = out.ok]
    /\ pc' = [pc EXCEPT ![p] = "idle"]
    /\ cr' = [cr EXCEPT ![p] = NoCr]
    /\ UNCHANGED <<today, co, sw, served>>

\* admin_car_edit: a valid CarForm with another daily_price is saved
AdminCarEdit ==
    /\ \E c \in Cars, daily_price \in OfficePrices :
         /\ cars[c] # NoCar
         /\ daily_price # cars[c].daily_price
         /\ cars' = [cars EXCEPT ![c].daily_price = daily_price]
         /\ result' = Returned("admin_car_edit", <<c, daily_price>>, TRUE)
    /\ UNCHANGED <<today, rentals, fines, payments, pc, cr, co, sw>>
    /\ Accept

\* admin_car_delete requested with GET or POST
AdminCarDelete ==
    /\ \E c \in Cars, method \in Methods :
         /\ cars[c] # NoCar
         /\ LET out == admin_car_delete(DB, c, method)
            IN  /\ cars' = out.db.cars
                /\ result' = Returned("admin_car_delete", <<c, method>>, out.ok)
    /\ UNCHANGED <<today, rentals, fines, payments, pc, cr, co, sw>>
    /\ Accept

\* the factory, the sweep, the completion form and the fleet administration,
\* one request at a time
OfficeNext ==
    \/ CalculatePrice
    \/ ValidateRentalDates
    \/ \E p \in Procs :
         /\ Alone(p)
         /\ \/ LoadCar(p)
            \/ ApiCreateRental(p)
            \/ SweepCountPending(p)
            \/ SweepUpdatePending(p)
            \/ SweepCountOverdue(p)
            \/ SweepUpdateOverdue(p)
            \/ AdminLoadRental(p)
            \/ AdminCompleteRental(p)
    \/ AllIdle /\ AdminCarEdit
    \/ AllIdle /\ AdminCarDelete
    \/ AllIdle /\ AdminCancelRental
    \/ AllIdle /\ Tick

OfficeSpec == OfficeInit /\ [][OfficeNext]_vars

\* ------------------------------------------------------------------ claims
LiveRentalsOf(c) ==
    {i \in DOMAIN rentals : rentals[i].car = c
                            /\ rentals[i].status \in LiveStatuses}
PaymentsOf(ps, i, type) ==
    {k \in DOMAIN ps : ps[k].rental = i /\ ps[k].payment_type = type}
FinesOf(fs, i) == {k \in DOMAIN fs : fs[k].rental = i}

\* the step in which a worker's call returns
CreateReturns(p) == pc[p] = "create" /\ pc'[p] = "idle"
CompleteReturns(p) ==
    pc[p] \in {"admin_complete", "api_complete"} /\ pc'[p] = "idle"
SweepReturns(p) == pc[p] = "sweep_update_overdue" /\ pc'[p] = "idle"
CompletionTakenUp(p) ==
    pc[p] = "idle" /\ pc'[p] \in {"admin_complete", "api_complete"}

\* C1: when create_rental requests for one vehicle interleave, at most one
\* creates a rental: no state has two rentals in status pending, active or
\* overdue that reference the same vehicle.
C1_OneLiveRentalPerVehicle ==
    \A c \in Cars : Cardinality(LiveRentalsOf(c)) <= 1

\* C2: with the operations executed one at a time from an all-available,
\* rental-free fleet, every vehicle has at most one pending/active/overdue
\* rental, is 'rented' exactly when it has one and 'available' when it has none.
C2_VehicleStatusMatchesRentals ==
    \A c \in Cars :
        /\ Cardinality(LiveRentalsOf(c)) <= 1
        /\ cars[c].status = "rented" <=> Cardinality(LiveRentalsOf(c)) = 1
        /\ Cardinality(LiveRentalsOf(c)) = 0 => cars[c].status = "available"

C2_Witness ==
    \E i, j \in DOMAIN rentals :
        /\ rentals[i].status = "completed"
        /\ rentals[j].status \in LiveStatuses
        /\ rentals[j].car = rentals[i].car
        /\ cars[rentals[j].car].status = "rented"

\* what the returning create_rental of worker p has committed
C3_CreateCommits(p) ==
    LET n == Len(rentals')
        c == cr[p].car
    IN  /\ CreateReturns(p) /\ result'.ok =>
            /\ n = Len(rentals) + 1
            /\ SubSeq(rentals', 1, Len(rentals)) = rentals
            /\ rentals'[n].car = c
            /\ rentals'[n].start_date = result'.args[1]
            /\ rentals'[n].expected_end_date = result'.args[2]
            /\ rentals'[n].daily_cost = cars[c].daily_price
            /\ payments' = Append(payments,
                   [rental |-> n, payment_type |-> "deposit",
                    amount |-> rentals'[n].deposit])
            /\ fines' = fines
            /\ cars' = [cars EXCEPT ![c].status = "rented"]
        /\ CreateReturns(p) /\ ~result'.ok => UNCHANGED dbvars

\* every rental has its one deposit payment
C3_NoPartialState ==
    /\ \A i \in DOMAIN rentals :
          /\ Cardinality(PaymentsOf(payments, i, "deposit")) = 1
          /\ \A k \in PaymentsOf(payments, i, "deposit") :
                payments[k].amount = rentals[i].deposit

\* a vehicle turns 'rented' only together with a new rental for it
C3_RentedWithRental ==
    \A c \in Cars :
        cars[c].status # "rented" /\ cars'[c].status = "rented" =>
            /\ Len(rentals') = Len(rentals) + 1
            /\ rentals'[Len(rentals')].car = c

\* C3: a create_rental that returns has committed exactly one new Rental
\* (the requested dates, daily_cost = the vehicle's daily_price), exactly one
\* 'deposit' Payment for it with the rental's deposit as amount, and the
\* vehicle as 'rented'; one that raises has committed nothing; every rental
\* has its one deposit payment, and a vehicle turns 'rented' only together
\* with a new rental for it.
C3_CreateIsOneUnit ==
    /\ []C3_NoPartialState
    /\ [][(\A p \in Procs : C3_CreateCommits(p)) /\ C3_RentedWithRental]_vars

C3_Witness ==
    /\ result.op = "create_rental"
    /\ result.ok
    /\ Len(rentals) = 2
    /\ Len(payments) = 2
    /\ cars[rentals[2].car].status = "rented"

\* C4: create_rental raises whenever the vehicle it was given is not
\* 'available', or start_date < today, or end_date <= start_date, and then no
\* row is created and no vehicle changes.
C4_RejectsWithoutWrites ==
    [][\A p \in Procs :
          /\ CreateReturns(p)
          /\ \/ cr[p].obj.status # "available"
             \/ result'.args[1] < today
             \/ result'.args[2] <= result'.args[1]
          => ~result'.ok /\ UNCHANGED dbvars]_vars

C4_Witness ==
    /\ result.op = "create_rental"
    /\ ~result.ok
    /\ result.args[1] >= today
    /\ result.args[2] = result.args[1]
    /\ \E c \in Cars : cars[c].status = "available"

\* C5: a complete_rental that raises after the rental row was saved leaves
\* the rentals, the Fine and Payment rows and the vehicles as they were.
C5_CompleteAllOrNothing ==
    [][\A p \in Procs :
          CompleteReturns(p) /\ ~result'.ok => UNCHANGED dbvars]_vars

C5_Witness ==
    /\ result.op = "complete_rental"
    /\ ~result.ok
    /\ \E i \in DOMAIN rentals : rentals[i].status \in LiveStatuses

\* C6: a rental created by create_rental starts today or later, is 'active'
\* exactly when it starts today and 'pending' exactly when it starts later,
\* and has no other status.
C6_StatusOfNewRental ==
    [][\A p \in Procs :
          CreateReturns(p) /\ result'.ok =>
              LET r == rentals'[Len(rentals')]
              IN  /\ r.start_date >= today
                  /\ r.status \in {"active", "pending"}
                  /\ r.status = "active" <=> r.start_date = today
                  /\ r.status = "pending" <=> r.start_date > today]_vars

C6_Witness ==
    /\ result.op = "create_rental"
    /\ result.ok
    /\ \E i \in DOMAIN rentals :
          rentals[i].status = "active" /\ rentals[i].start_date = today
    /\ \E i \in DOMAIN rentals :
          rentals[i].status = "pending" /\ rentals[i].start_date > today

AllowedTransitions ==
    {<<"pending", "active">>, <<"active", "overdue">>,
     <<"pending", "completed">>, <<"active", "completed">>,
     <<"overdue", "completed">>}

\* C7: with the operations executed one at a time and the date moving forward,
\* a rental's persisted status changes only pending->active, active->overdue
\* or pending/active/overdue->completed, and no rental becomes 'cancelled'.
C7_StatusMovesForward ==
    [][/\ \A i \in DOMAIN rentals :
             rentals'[i].status # rentals[i].status =>
                 <<rentals[i].status, rentals'[i].status>> \in AllowedTransitions
       /\ \A i \in DOMAIN rentals' : rentals'[i].status # "cancelled"]_vars

C7_Witness ==
    /\ result.op = "update_overdue_rentals"
    /\ result.count = 2
    /\ Len(rentals) = 1
    /\ rentals[1].status = "overdue"

\* completion took effect at most once for every rental
C8_CompletedOnce ==
    \A i \in DOMAIN rentals :
        /\ Cardinality(PaymentsOf(payments, i, "refund")) <= 1
        /\ Cardinality(FinesOf(fines, i)) <= 2

\* C8: every caller of complete_rental rejects an already completed rental, so
\* no rental gets more than one 'refund' Payment or more than two Fine rows.
C8_CallersRejectCompleted ==
    /\ []C8_CompletedOnce
    /\ [][\A p \in Procs :
             CompletionTakenUp(p) => co'[p].obj.status # "completed"]_vars

\* C9: once a rental is 'cancelled', no sweep and no completion request
\* changes its row, creates Fine or Payment rows for it or changes its vehicle.
C9_CancelledIsTerminal ==
    [][/\ \A i \in DOMAIN rentals :
             rentals[i].status = "cancelled" =>
                 /\ rentals'[i] = rentals[i]
                 /\ FinesOf(fines', i) = FinesOf(fines, i)
                 /\ PaymentsOf(payments', i, "refund")
                        = PaymentsOf(payments, i, "refund")
       /\ \A p \in Procs :
             CompleteReturns(p) /\ rentals[co[p].rental].status = "cancelled"
                 => UNCHANGED dbvars]_vars

\* C10: when update_overdue_rentals returns, run on its own, no 'pending'
\* rental has start_date <= today, no 'active' rental has
\* expected_end_date < today, and no rental due today or later is 'overdue'.
C10_SweepLeavesNothingDue ==
    [][\A p \in Procs :
          SweepReturns(p) =>
              \A i \in DOMAIN rentals' :
                  /\ ~(rentals'[i].status = "pending"
                       /\ rentals'[i].start_date <= today')
                  /\ ~(rentals'[i].status = "active"
                       /\ rentals'[i].expected_end_date < today')
                  /\ ~(rentals'[i].status = "overdue"
                       /\ rentals'[i].expected_end_date >= today')]_vars

C10_Witness ==
    /\ result.op = "update_overdue_rentals"
    /\ result.count > 0
    /\ \E i \in DOMAIN rentals :
          rentals[i].status = "active" /\ rentals[i].expected_end_date = today
    /\ \E i \in DOMAIN rentals : rentals[i].status = "overdue"

\* the rows whose status differs between two versions of the rentals
StatusChanged(before, after) ==
    {i \in DOMAIN before : after[i].status # before[i].status}

\* C11: when update_overdue_rentals, run on its own, returns, a second call
\* on the same date would return 0 and leave every rental's status as it is.
C11_SweepIdempotent ==
    [][\A p \in Procs :
          SweepReturns(p) =>
              LET again == update_overdue_rentals(rentals', sw[p].today)
              IN  /\ today' = sw[p].today
                  /\ again.count = 0
                  /\ StatusChanged(rentals', again.rentals) = {}]_vars

C11_Witness ==
    /\ result.op = "update_overdue_rentals"
    /\ result.count > 0
    /\ \E i \in DOMAIN rentals : rentals[i].status = "active"
    /\ \E i \in DOMAIN rentals : rentals[i].status = "overdue"

\* the two bulk transitions in the other order: active->overdue first
update_overdue_rentals_reversed(rs, t) ==
    LET overdue_count == QCount(overdue_rentals_rows(rs, t))
        rs1 == QUpdate(rs, overdue_rentals_rows(rs, t), "overdue")
        pending_count == QCount(pending_to_active_rows(rs1, t))
        rs2 == QUpdate(rs1, pending_to_active_rows(rs1, t), "active")
    IN  [rentals |-> rs2, count |-> pending_count + overdue_count]

\* the rentals that both transitions apply to, one after the other
PendingPastEnd(rs, t) ==
    {i \in DOMAIN rs : /\ rs[i].status = "pending"
                       /\ rs[i].start_date <= t
                       /\ rs[i].expected_end_date < t}

\* C12 as stated: for every set of rentals a sweep starts from, pending->active
\* before active->overdue gives the same statuses and the same count as
\* active->overdue before pending->active.
C12_OrderIndependent ==
    \A p \in Procs :
        pc[p] = "sweep_update_pending" =>
            update_overdue_rentals(rentals, sw[p].today)
                = update_overdue_rentals_reversed(rentals, sw[p].today)

\* C12: the two orders give the same statuses and the same count exactly when
\* no pending rental has start_date <= today and expected_end_date < today;
\* each such rental ends 'overdue' and is counted twice in the code's order,
\* and ends 'active' and is counted once in the other order.
C12_OrderIndependentUnlessPastEnd ==
    \A p \in Procs :
        pc[p] = "sweep_update_pending" =>
            LET t == sw[p].today
                ab == update_overdue_rentals(rentals, t)
                ba == update_overdue_rentals_reversed(rentals, t)
                both == PendingPastEnd(rentals, t)
            IN  /\ (both = {}) <=> (ab = ba)
                /\ ab.count = ba.count + Cardinality(both)
                /\ \A i \in DOMAIN rentals :
                      IF i \in both
                      THEN /\ ab.rentals[i].status = "overdue"
                           /\ ba.rentals[i].status = "active"
                      ELSE ab.rentals[i] = ba.rentals[i]

C12_Witness ==
    \E p \in Procs :
        /\ pc[p] = "sweep_update_pending"
        /\ pending_to_active_rows(rentals, sw[p].today) # {}
        /\ overdue_rentals_rows(rentals, sw[p].today) # {}
        /\ PendingPastEnd(rentals, sw[p].today) = {}

\* C13: the count update_overdue_rentals returns, run on its own, is the
\* number of rentals whose status after the call differs from their status
\* before it.
C13_CountIsRowsTransitioned ==
    \A p \in Procs :
        pc[p] = "sweep_update_pending" =>
            LET out == update_overdue_rentals(rentals, sw[p].today)
            IN  out.count = Cardinality(StatusChanged(rentals, out.rentals))

\* C14: whatever interleaves with a sweep, each of its two counts is the
\* number of rows its following update changes (so no two sweeps report the
\* same rental's transition).
C14_SweepCountsOwnUpdates ==
    [][\A p \in Procs :
          /\ pc[p] = "sweep_update_pending" /\ pc'[p] = "sweep_count_overdue"
                => sw[p].pending_count
                       = Cardinality(StatusChanged(rentals, rentals'))
          /\ SweepReturns(p)
                => sw[p].overdue_count
                       = Cardinality(StatusChanged(rentals, rentals'))]_vars

\* C15: a complete_rental that returns has persisted the rental as
\* 'completed' with the given actual_end_date, damage_level and late_days and
\* with total_cost = the Combined price of its vehicle over
\* [start_date, actual_end_date] plus total_fines (as the decimal(10,2)
\* column holds it), has left its vehicle 'available', and returns the
\* total_fines and the refund of the fine calculator.
C15_CompletionPostcondition ==
    [][\A p \in Procs :
          CompleteReturns(p) /\ result'.ok =>
              LET rid == co[p].rental
                  r == rentals'[rid]
                  car == cars[r.car]
                  price == calculate_price(car, r.start_date,
                                           result'.args[1], today)
              IN  /\ r.status = "completed"
                  /\ r.actual_end_date = result'.args[1]
                  /\ r.damage_level = result'.args[2]
                  /\ r.late_days = result'.args[3]
                  /\ r.total_cost = Quantize(price + result'.total_fines)
                  /\ r.start_date = rentals[rid].start_date
                  /\ r.car = rentals[rid].car
                  /\ cars'[r.car].status = "available"
                  /\ result'.total_fines
                         = calculate_total_fines(rentals[rid], result'.args[2],
                                                 result'.args[3])
                  /\ result'.refund
                         = calculate_refund(rentals[rid], result'.total_fines)]_vars

C15_Witness ==
    /\ result.op = "complete_rental"
    /\ result.ok
    /\ result.total_fines > 0
    /\ \E i \in DOMAIN rentals :
          /\ rentals[i].status = "completed"
          /\ rentals[i].actual_end_date = result.args[1]
          /\ rentals[i].actual_end_date < rentals[i].expected_end_date
          /\ cars[rentals[i].car].status = "available"
          /\ rentals[i].total_cost
                 # Quantize(calculate_price(cars[rentals[i].car],
                                            rentals[i].start_date,
                                            rentals[i].expected_end_date, today)
                            + result.total_fines)

\* C16: for damage_level in 0..3 and late_days >= 0, calculate_total_fines
\* returns deposit x m(damage_level), m = 0, 0.1, 0.3, 0.5, plus 500.00 for
\* each late day, which is calculate_damage_fine plus calculate_late_fine.
C16_TotalFinesAdditive ==
    (result.op = "calculate_total_fines"
       /\ result.args[2] \in 0..3 /\ result.args[3] >= 0) =>
        LET deposit == rentals[result.args[1]].deposit
            level == result.args[2]
            late_days == result.args[3]
            tenths == CASE level = 0 -> 0 [] level = 1 -> 1
                        [] level = 2 -> 3 [] level = 3 -> 5
            damage == deposit * tenths * 1000
            late == IF late_days > 0 THEN 50000 * 10000 * late_days ELSE 0
        IN  /\ result.value = damage + late
            /\ result.value
                   = calculate_damage_fine(rentals[result.args[1]], level)
                     + calculate_late_fine(rentals[result.args[1]], late_days)

\* deposit 10.80, level 2, one late day: 3.24 + 500.00
C16_Witness ==
    /\ result.op = "calculate_total_fines"
    /\ rentals[1].deposit = 1080
    /\ result.args = <<1, 2, 1>>
    /\ result.value = (324 + 50000) * Scale

\* C17: for a damage level below 0 or above 3 calculate_damage_fine returns
\* 0, as for level 0, and a completion with such a level returns the
\* total_fines and the refund of the same completion with level 0.
C17_OutOfRangeLevelIsNoDamage ==
    /\ [](result.op = "calculate_damage_fine" /\ result.args[2] \notin 0..3
            => /\ result.value = 0
               /\ result.value
                      = calculate_damage_fine(rentals[result.args[1]], 0))
    /\ [][\A p \in Procs :
             (CompleteReturns(p) /\ result'.ok
                 /\ result'.args[2] \notin 0..3) =>
                 LET level0 == complete_rental(DB, co[p].rental, co[p].obj,
                                   result'.args[1], 0, result'.args[3],
                                   today, "none")
                 IN  /\ level0.ok
                     /\ result'.total_fines = level0.total_fines
                     /\ result'.refund = level0.refund]_vars

C17_Witness ==
    /\ result.op = "complete_rental"
    /\ result.ok
    /\ result.args[2] = 5
    /\ result.total_fines = 0
    /\ result.refund > 0
    /\ \E i \in DOMAIN rentals : rentals[i].damage_level = 5

\* C18: for total_fines >= 0 calculate_refund returns a value that is never
\* negative, is deposit - total_fines when total_fines <= deposit and is 0
\* when total_fines >= deposit.
C18_RefundIsClampedDifference ==
    (result.op = "calculate_refund" /\ result.args[2] >= 0) =>
        LET deposit == rentals[result.args[1]].deposit * 10000
            total_fines == result.args[2]
        IN  /\ result.value >= 0
            /\ total_fines <= deposit => result.value = deposit - total_fines
            /\ total_fines >= deposit => result.value = 0

C18_Witness ==
    /\ result.op = "calculate_refund"
    /\ result.args[2] > rentals[result.args[1]].deposit * 10000
    /\ result.value = 0

\* the rows a step appends to a table, and the sum of their amounts
Appended(before, after) == SubSeq(after, Len(before) + 1, Len(after))
RECURSIVE SumAmounts(_)
SumAmounts(rows) ==
    IF rows = << >> THEN 0 ELSE Head(rows).amount + SumAmounts(Tail(rows))
RowsFor(rows, reason) == {k \in DOMAIN rows : rows[k].reason = reason}

\* C15 as stated: the persisted total_cost is exactly the Combined price over
\* [start_date, actual_end_date] plus total_fines.
C15_TotalCostExact ==
    [][\A p \in Procs :
          CompleteReturns(p) /\ result'.ok =>
              LET r == rentals'[co[p].rental]
                  price == calculate_price(cars[r.car], r.start_date,
                                           result'.args[1], today)
              IN  FromCents(r.total_cost) = price + result'.total_fines]_vars

\* C19 as stated: a complete_rental that returns has created one damage Fine
\* row iff damage_level > 0, with exactly the damage fine as amount, one late
\* Fine row iff late_days > 0, with exactly the late fine as amount, and the
\* amounts of the rows sum to exactly the total_fines returned.
C19_FineRowsExact ==
    [][\A p \in Procs :
          CompleteReturns(p) /\ result'.ok =>
              LET rows == Appended(fines, fines')
                  damage == RowsFor(rows, "damage")
                  late == RowsFor(rows, "late")
                  level == result'.args[2]
                  late_days == result'.args[3]
              IN  /\ Cardinality(damage) = IF level > 0 THEN 1 ELSE 0
                  /\ Cardinality(late) = IF late_days > 0 THEN 1 ELSE 0
                  /\ Len(rows) = Cardinality(damage) + Cardinality(late)
                  /\ \A k \in DOMAIN rows : rows[k].rental = co[p].rental
                  /\ \A k \in damage :
                        FromCents(rows[k].amount)
                            = calculate_damage_fine(co[p].obj, level)
                  /\ \A k \in late :
                        FromCents(rows[k].amount)
                            = calculate_late_fine(co[p].obj, late_days)
                  /\ FromCents(SumAmounts(rows)) = result'.total_fines]_vars

\* C19: a complete_rental that returns has created one damage Fine row iff
\* damage_level > 0 and one late Fine row iff late_days > 0, hence zero, one
\* or two rows, each with its fine rounded to two decimal places as amount,
\* and the amounts sum to the returned total_fines rounded to two decimal
\* places; one that raises has created none.
C19_FineRowsRounded ==
    [][\A p \in Procs :
          CompleteReturns(p) =>
              LET rows == Appended(fines, fines')
                  damage == RowsFor(rows, "damage")
                  late == RowsFor(rows, "late")
                  level == result'.args[2]
                  late_days == result'.args[3]
              IN  IF ~result'.ok THEN fines' = fines
                  ELSE
                  /\ Cardinality(damage) = IF level > 0 THEN 1 ELSE 0
                  /\ Cardinality(late) = IF late_days > 0 THEN 1 ELSE 0
                  /\ Len(rows) = Cardinality(damage) + Cardinality(late)
                  /\ \A k \in DOMAIN rows : rows[k].rental = co[p].rental
                  /\ \A k \in damage :
                        rows[k].amount
                            = Quantize(calculate_damage_fine(co[p].obj, level))
                  /\ \A k \in late :
                        rows[k].amount
                            = Quantize(calculate_late_fine(co[p].obj,
                                                           late_days))
                  /\ SumAmounts(rows) = Quantize(result'.total_fines)]_vars

\* two rows, the damage fine 0.105 stored as 0.10
C19_Witness ==
    /\ result.op = "complete_rental"
    /\ result.ok
    /\ result.args[2] = 2
    /\ result.args[3] = 1
    /\ Len(fines) = 2
    /\ fines[1].reason = "damage" /\ fines[1].amount = 10
    /\ fines[2].reason = "late" /\ fines[2].amount = LATE_FINE_PER_DAY
    /\ result.total_fines = 105000 + FromCents(LATE_FINE_PER_DAY)

\* C20 as stated: a complete_rental that returns has created a 'refund'
\* Payment iff refund > 0, with exactly the refund as amount, and no other
\* Payment.
C20_RefundPaymentExact ==
    [][\A p \in Procs :
          CompleteReturns(p) /\ result'.ok =>
              LET rows == Appended(payments, payments')
              IN  /\ Len(rows) = IF result'.refund > 0 THEN 1 ELSE 0
                  /\ \A k \in DOMAIN rows :
                        /\ rows[k].rental = co[p].rental
                        /\ rows[k].payment_type = "refund"
                        /\ FromCents(rows[k].amount) = result'.refund]_vars

\* C20: a complete_rental that returns has created a 'refund' Payment iff
\* refund > 0, with the refund rounded to two decimal places as amount, none
\* when total_fines >= deposit, and no Payment of another type; one that
\* raises has created none.
C20_RefundPaymentRounded ==
    [][\A p \in Procs :
          CompleteReturns(p) =>
              LET rows == Appended(payments, payments')
              IN  IF ~result'.ok THEN payments' = payments
                  ELSE
                  /\ Len(rows) = IF result'.refund > 0 THEN 1 ELSE 0
                  /\ result'.total_fines >= FromCents(co[p].obj.deposit)
                        => rows = << >>
                  /\ \A k \in DOMAIN rows :
                        /\ rows[k].rental = co[p].rental
                        /\ rows[k].payment_type = "refund"
                        /\ rows[k].amount = Quantize(result'.refund)]_vars

\* deposit 0.32, damage fine 0.096: refund 0.224 paid as 0.22
C20_Witness ==
    /\ result.op = "complete_rental"
    /\ result.ok
    /\ result.refund = 224000
    /\ Len(payments) = 2
    /\ payments[2].payment_type = "refund"
    /\ payments[2].amount = 22

\* C21: every Fine row and every Payment row that create_rental or
\* complete_rental has written has an amount above zero, whatever
\* damage_level and late_days the admin form or the API action passed.
C21_AmountsPositive ==
    /\ \A k \in DOMAIN fines : fines[k].amount > 0
    /\ \A k \in DOMAIN payments : payments[k].amount > 0

\* C22: the deposit create_rental stores is 30% of the Combined price of a
\* rental of the same inclusive day count d anchored at today (to the two
\* decimal places of the column), so a rental starting today gets 30% of
\* its total_cost.
C22_DepositOfSameLength ==
    [][\A p \in Procs :
          CreateReturns(p) /\ result'.ok =>
              LET r == rentals'[Len(rentals')]
                  d == (r.expected_end_date - r.start_date) + 1
                  estimate == calculate_price(cr[p].obj, today,
                                              today + (d - 1), today)
                  quoted == calculate_price(cr[p].obj, r.start_date,
                                            r.expected_end_date, today)
              IN  /\ r.deposit = Quantize((estimate * 3) \div 10)
                  /\ r.start_date = today
                        => r.deposit = Quantize((quoted * 3) \div 10)]_vars

\* C23: for end > start the Combined price is daily_price x days x
\* year_multiplier x (1 - duration_discount) with days = end - start + 1,
\* the multiplier 1.2 / 1.0 / 0.9 / 0.8 for age <= 2 / 3..5 / 6..10 / >= 11
\* and the discount 0 / 0.05 / 0.10 / 0.15 for days <= 6 / 7..13 / 14..29 /
\* >= 30.
C23_CombinedPrice ==
    (result.op = "calculate_price" /\ result.args[4] > result.args[3]) =>
        LET daily_price == result.args[1]
            age == result.args[2]
            days == (result.args[4] - result.args[3]) + 1
            multiplier10 == CASE age <= 2 -> 12
                              [] age \in 3..5 -> 10
                              [] age \in 6..10 -> 9
                              [] age >= 11 -> 8
            discount100 == CASE days <= 6 -> 0
                             [] days \in 7..13 -> 5
                             [] days \in 14..29 -> 10
                             [] days >= 30 -> 15
        IN  result.value
                = ((daily_price * days * multiplier10) * (100 - discount100))
                    * (Scale \div 1000)

\* 1.00 a day, age 0, 10 days: 11.40
C23_Witness ==
    /\ result.op = "calculate_price"
    /\ result.args[1] = 100
    /\ result.args[2] = 0
    /\ result.args[4] - result.args[3] = 9
    /\ result.value = 11400000

\* C24: validate_rental_dates returns (True, "") iff start >= today, end >
\* start and end - start <= 365; otherwise False with the message of the
\* first failing check (start in the past, end not after start, duration
\* over 365 days), and never the minimum-duration message.
C24_ValidateRentalDates ==
    result.op = "validate_rental_dates" =>
        LET start == result.args[1]
            end == result.args[2]
            t == result.args[3]
            ok == start >= t /\ end > start /\ end - start <= 365
            message == IF start < t THEN "start in the past"
                       ELSE IF end <= start THEN "end not after start"
                       ELSE IF end - start > 365 THEN "maximum duration"
                       ELSE ""
        IN  /\ result.value.ok <=> ok
            /\ result.value.message = message
            /\ result.value.message # "minimum duration"

C24_Witness ==
    /\ result.op = "validate_rental_dates"
    /\ result.args[1] = result.args[3]
    /\ result.args[2] - result.args[1] = 366
    /\ result.value = [ok |-> FALSE, message |-> "maximum duration"]

\* C26: every range for which create_rental succeeds is one that
\* validate_rental_dates accepts; a range of more than 365 days is rejected.
C26_CreateEnforcesDateRules ==
    [][\A p \in Procs :
          CreateReturns(p) /\ result'.ok =>
              /\ validate_rental_dates(result'.args[1], result'.args[2],
                                       today).ok
              /\ result'.args[2] - result'.args[1] <= 365]_vars

\* C25: admin_car_delete leaves the vehicle in place whenever a rental with
\* a status other than 'cancelled' references it, and a vehicle disappears
\* only in the step of a POST to admin_car_delete for it.
C25_DeleteProtected ==
    [][\A c \in Cars :
          cars[c] # NoCar =>
              /\ (\E i \in DOMAIN rentals : /\ rentals[i].car = c
                                            /\ rentals[i].status # "cancelled")
                    => cars'[c] # NoCar
              /\ cars'[c] = NoCar
                    => /\ result'.op = "admin_car_delete"
                       /\ result'.args = <<c, "POST">>]_vars

\* a confirming POST for a vehicle whose only rental is completed is refused
C25_Witness ==
    /\ result.op = "admin_car_delete"
    /\ result.args[2] = "POST"
    /\ result.value = FALSE
    /\ cars[result.args[1]] # NoCar
    /\ \E i \in DOMAIN rentals : /\ rentals[i].car = result.args[1]
                                 /\ rentals[i].status = "completed"
    /\ \A i \in DOMAIN rentals :
          rentals[i].car = result.args[1]
              => rentals[i].status \notin LiveStatuses

\* C27: no step changes a rental's daily_cost or deposit, and the total_cost
\* complete_rental writes is the one the vehicle's daily_price at creation
\* (the rental's daily_cost) gives, whatever the vehicle's price is now.
C27_InsulatedFromPriceChange ==
    [][/\ \A i \in DOMAIN rentals :
             /\ rentals'[i].daily_cost = rentals[i].daily_cost
             /\ rentals'[i].deposit = rentals[i].deposit
       /\ \A p \in Procs :
             CompleteReturns(p) /\ result'.ok =>
                 LET r == rentals'[co[p].rental]
                     car == [cars[r.car] EXCEPT !.daily_price = r.daily_cost]
                 IN  r.total_cost
                         = Quantize(calculate_price(car, r.start_date,
                                                    result'.args[1], today)
                                    + result'.total_fines)]_vars

\* C28: a step of update_overdue_rentals changes no vehicle, no Fine, no
\* Payment and no rental that was not 'pending' or 'active', and of the
\* others nothing but the status.
C28_SweepFrame ==
    [][\A p \in Procs :
          (pc'[p] # pc[p]
             /\ (pc'[p] = "sweep_update_pending"
                   \/ pc[p] \in {"sweep_update_pending", "sweep_count_overdue",
                                 "sweep_update_overdue"})) =>
              /\ cars' = cars
              /\ fines' = fines
              /\ payments' = payments
              /\ DOMAIN rentals' = DOMAIN rentals
              /\ \A i \in DOMAIN rentals :
                    /\ rentals'[i]
                           = [rentals[i] EXCEPT !.status = rentals'[i].status]
                    /\ rentals[i].status \notin {"pending", "active"}
                          => rentals'[i] = rentals[i]]_vars

C28_Witness ==
    /\ result.op = "update_overdue_rentals"
    /\ result.count > 0
    /\ \E i \in DOMAIN rentals :
          /\ rentals[i].status = "overdue"
          /\ cars[rentals[i].car].status = "rented"
    /\ Len(payments) = Len(rentals)

\* C29: a completion request that read the rental before it was completed
\* finds it still not completed when it commits, so that the rental has at
\* most one refund Payment, one damage Fine and one late Fine afterwards.
C29_CompletionTakesEffectOnce ==
    [][\A p \in Procs :
          (CompleteReturns(p) /\ result'.ok
              /\ co[p].obj.status # "completed") =>
              LET rid == co[p].rental
                  rows == FinesOf(fines', rid)
              IN  /\ rentals[rid].status # "completed"
                  /\ Cardinality(PaymentsOf(payments', rid, "refund")) <= 1
                  /\ Cardinality({k \in rows :
                                     fines'[k].reason = "damage"}) <= 1
                  /\ Cardinality({k \in rows :
                                     fines'[k].reason = "late"}) <= 1]_vars

\* C30: a completion through the form (actual_end_date >= today) of a
\* pending, active or overdue rental reprices it at a price that is not
\* negative, so that the total_cost written is at least the total_fines.
C30_PriceComponentNotNegative ==
    [][\A p \in Procs :
          (CompleteReturns(p) /\ result'.ok
              /\ rentals[co[p].rental].status \in LiveStatuses
              /\ result'.args[1] >= today) =>
              LET r == rentals'[co[p].rental]
              IN  /\ calculate_price(cars[r.car], r.start_date,
                                     result'.args[1], today) >= 0
                  /\ r.total_cost >= Quantize(result'.total_fines)]_vars
====
